---- MODULE Spec2Model ----
(***************************************************************************)
(* Model of backup.py: the AzureDevOpsBackup orchestrator.                 *)
(*                                                                         *)
(* One sequential process.  pc is the position of that process inside     *)
(* main / run_backup / backup_repo.  The file system (backup root,        *)
(* project directories, clone workspaces, archives, manifest file) and    *)
(* the two cloud destinations are part of the state.  The outcome of each *)
(* external call (REST request, git, zip, upload, file write, SMTP, rm)   *)
(* is drawn nondeterministically where the call is made.                  *)
(*                                                                         *)
(* Paths are sequences of path components; the components themselves are  *)
(* built with string concatenation exactly as the f-strings build them.    *)
(***************************************************************************)
EXTENDS Integers, Sequences, FiniteSets, TLC

\* ---------------------------------------------------------------- bounds
\* the organization has at most MaxProjects projects and, over all of its
\* projects, at most MaxRepos repositories
MaxProjects == 2
MaxRepos == 2

\* ------------------------------------------------------- fixed run inputs
AllProjects == <<"A", "B", "C", "D">>
AllRepos == <<"r1", "r2", "r3", "r4">>
organization == "Contoso"
TimestampValue == "20240101-0000"

ProjectNames == {AllProjects[i] : i \in 1..MaxProjects}

VARIABLES
    pc,                 \* position of the process
    args,               \* parsed command line: azure_backup, aws_backup flags
    pat_token,          \* TRUE iff AZURE_DEVOPS_PAT is set
    azureEnv,           \* TRUE iff AZURE_STORAGE_CONNECTION_STRING / AZURE_CONTAINER usable
    awsEnv,             \* TRUE iff AWS_BUCKET (and the S3 client) usable
    excluded_projects,  \* self.excluded_projects
    azure_backup,       \* self.azure_backup
    aws_backup,         \* self.aws_backup
    dry_run,            \* self.dry_run
    keep_local,         \* self.keep_local
    timestamp,          \* self.timestamp
    manifest,           \* self.manifest
    projects,           \* run_backup: projects
    pi,                 \* run_backup: index of the current project
    repos,              \* run_backup: repos of the current project
    ri,                 \* run_backup: index of the current repo
    success,            \* run_backup: success
    error_message,      \* run_backup: error_message
    handled,            \* run_backup's except clause has run
    raised,             \* exception propagating out of backup_repo's try, "" if none
    rootExists,         \* file system: backup_root exists
    projectDirs,        \* file system: project directories
    workspaces,         \* file system: temporary clone directories
    archives,           \* file system: zip files
    manifestFile,       \* file system: the manifest file
    azureCalls,         \* upload_blob calls, in order: [path, cloud, ok]
    awsCalls,           \* upload_file calls, in order: [path, cloud, ok]
    calls,              \* subprocess invocations so far, by kind
    discovered,         \* project names in the response read by get_projects
    listings,           \* what get_repos_by_project returned, per processed project
    outcomes,           \* how each backup_repo call went, aligned with manifest
    notifications,      \* send_email_notification calls, in order
    exitCode            \* process exit code, -1 while running

vars == <<pc, args, pat_token, azureEnv, awsEnv, excluded_projects, azure_backup,
          aws_backup, dry_run, keep_local, timestamp, manifest, projects, pi,
          repos, ri, success, error_message, handled, raised, rootExists,
          projectDirs, workspaces, archives, manifestFile, azureCalls, awsCalls,
          calls, discovered, listings, outcomes, notifications, exitCode>>

config == <<args, pat_token, azureEnv, awsEnv, excluded_projects, azure_backup,
            aws_backup, dry_run, keep_local, timestamp>>
loopVars == <<projects, pi, repos, ri>>
outcomeVars == <<success, error_message, handled>>
fsVars == <<rootExists, projectDirs, workspaces, archives, manifestFile>>
cloudVars == <<azureCalls, awsCalls>>
histVars == <<discovered, listings, outcomes>>

\* ------------------------------------------------------------ path helpers
\* os.path.join(os.getcwd(), "backups", self.timestamp); cwd is left out
backup_root == <<"backups", timestamp>>

\* os.path.join(self.backup_root, f"{project}-{self.timestamp}")
project_dir(project) == backup_root \o <<project \o "-" \o timestamp>>

\* os.path.join(project_dir, f"{repo_name}.git")
temp_clone_path(project, repo_name) == project_dir(project) \o <<repo_name \o ".git">>

\* f"{project}-{repo_name}-{self.timestamp}.zip"
zip_file_name(project, repo_name) ==
    project \o "-" \o repo_name \o "-" \o timestamp \o ".zip"

\* os.path.join(project_dir, zip_file_name)
zip_file_path(project, repo_name) ==
    project_dir(project) \o <<zip_file_name(project, repo_name)>>

\* os.path.dirname
dirname(path) == SubSeq(path, 1, Len(path) - 1)

\* os.path.relpath(path, start) for a path below start
relpath(path, start) == SubSeq(path, Len(start) + 1, Len(path))

\* upload_backup: path relative to '.../backups', forward slashes
cloud_path(zip_path) == relpath(zip_path, dirname(backup_root))

\* os.path.join(self.backup_root, f"manifest-{self.timestamp}.json")
manifest_file == backup_root \o <<"manifest-" \o timestamp \o ".json">>

\* the dict appended to self.manifest by backup_repo
ManifestEntry(project, repo_name) ==
    [project |-> project, repo |-> repo_name,
     zip_file |-> zip_file_name(project, repo_name),
     path |-> zip_file_path(project, repo_name)]

NoFile == [exists |-> FALSE, complete |-> FALSE, organization |-> "",
           timestamp |-> "", repos |-> <<>>]

\* ----------------------------------------------------------------- Init
Init ==
    /\ pc = "main"
    /\ args = [azure_backup |-> FALSE, aws_backup |-> FALSE]
    /\ pat_token = FALSE
    /\ azureEnv = FALSE
    /\ awsEnv = FALSE
    /\ excluded_projects = {}
    /\ azure_backup = FALSE
    /\ aws_backup = FALSE
    /\ dry_run = FALSE
    /\ keep_local = FALSE
    /\ timestamp = ""
    /\ manifest = <<>>
    /\ projects = <<>>
    /\ pi = 0
    /\ repos = <<>>
    /\ ri = 0
    /\ success = TRUE
    /\ error_message = ""
    /\ handled = FALSE
    /\ raised = ""
    /\ rootExists = FALSE
    /\ projectDirs = {}
    /\ workspaces = {}
    /\ archives = {}
    /\ manifestFile = NoFile
    /\ azureCalls = <<>>
    /\ awsCalls = <<>>
    /\ calls = [clone |-> 0, zip |-> 0, rm_workspace |-> 0, rm_root |-> 0]
    /\ discovered = <<>>
    /\ listings = <<>>
    /\ outcomes = <<>>
    /\ notifications = <<>>
    /\ exitCode = -1

\* ----------------------------------------------------------------- main
\* main(): parse the arguments, read AZURE_DEVOPS_PAT; without it print and
\* return (the interpreter then exits with status 0).
main ==
    /\ pc = "main"
    /\ \E pat \in BOOLEAN, az \in BOOLEAN, aws \in BOOLEAN, dry \in BOOLEAN,
          keep \in BOOLEAN, azEnv \in BOOLEAN, awEnv \in BOOLEAN,
          excl \in SUBSET ProjectNames :
        \* the destination environment is only ever read when its flag is set
        /\ ~az => ~azEnv
        /\ ~aws => ~awEnv
        /\ pat_token' = pat
        /\ args' = [azure_backup |-> az, aws_backup |-> aws]
        /\ dry_run' = dry
        /\ keep_local' = keep
        /\ azureEnv' = azEnv
        /\ awsEnv' = awEnv
        /\ excluded_projects' = excl
        /\ IF pat
             THEN pc' = "init" /\ exitCode' = exitCode
             ELSE pc' = "exit" /\ exitCode' = 0
    /\ UNCHANGED <<azure_backup, aws_backup, timestamp, manifest, loopVars,
                   outcomeVars, raised, fsVars, cloudVars, calls, histVars,
                   notifications>>

\* ------------------------------------------------------------- __init__
\* variant: the except clause logs the failure but leaves the flag set
AzureSetup_KeepsFlag(flag, envOK) == flag

\* Azure Blob setup: a missing connection string / container raises inside
\* the try and the except clause turns the destination off.
AzureSetup(flag, envOK) == flag /\ envOK

\* AWS S3 setup: likewise for the S3 client / AWS_BUCKET.
AwsSetup(flag, envOK) == flag /\ envOK

AzureDevOpsBackup_init ==
    /\ pc = "init"
    /\ timestamp' = TimestampValue
    /\ manifest' = <<>>
    /\ rootExists' = TRUE
    /\ azure_backup' = AzureSetup(args.azure_backup, azureEnv)
    /\ aws_backup' = AwsSetup(args.aws_backup, awsEnv)
    /\ pc' = "run_backup"
    /\ UNCHANGED <<args, pat_token, azureEnv, awsEnv, excluded_projects, dry_run,
                   keep_local, loopVars, outcomeVars, raised, projectDirs,
                   workspaces, archives, manifestFile, cloudVars, calls,
                   histVars, notifications, exitCode>>

\* ----------------------------------------------------------- run_backup
\* variant: the except clause records the message but not the failure
EnterHandler_KeepsSuccess(msg) ==
    /\ success' = success
    /\ error_message' = msg
    /\ handled' = TRUE
    /\ pc' = "notify"

\* variant: the try statement has neither except nor finally clause, the
\* exception unwinds out of run_backup and main
EnterHandler_Unwinds(msg) ==
    /\ success' = success
    /\ error_message' = msg
    /\ handled' = handled
    /\ pc' = "traceback"

\* except Exception as e: success = False; error_message = str(e);
\* control then falls into the finally clause.
EnterHandler(msg) ==
    /\ success' = FALSE
    /\ error_message' = msg
    /\ handled' = TRUE
    /\ pc' = "notify"

\* variant: the notification sits after the try statement, not in a finally
\* clause, so the early return leaves run_backup without it
ReturnNoProjects_SkipsFinally ==
    /\ success' = FALSE
    /\ error_message' = "No projects found."
    /\ handled' = handled
    /\ pc' = "done"

\* if not projects: success = False; error_message = ...; return
\* (the return runs the finally clause).
ReturnNoProjects ==
    /\ success' = FALSE
    /\ error_message' = "No projects found."
    /\ handled' = handled
    /\ pc' = "notify"

\* variant: the exclusion filter is missing from the comprehension
get_projects_Unfiltered(value, outcome) ==
    IF outcome = "RequestException" THEN <<>> ELSE value

\* get_projects: names of the response that are not excluded, in response
\* order; [] when the request raises requests.RequestException.
get_projects(value, outcome) ==
    IF outcome = "RequestException"
      THEN <<>>
      ELSE SelectSeq(value, LAMBDA p : p \notin excluded_projects)

\* variant: the except clause logs the failure and falls through to the
\* return of whatever the response held
get_repos_by_project_NoEmptyOnFailure(value, outcome) == value

\* get_repos_by_project: the repositories of the response, in response
\* order; [] when the request raises requests.RequestException.
get_repos_by_project(value, outcome) ==
    IF outcome = "RequestException" THEN <<>> ELSE value

RECURSIVE ListedRepos(_)
\* number of repositories in the listings returned so far
ListedRepos(ls) ==
    IF ls = <<>> THEN 0 ELSE Len(Head(ls).repos) + ListedRepos(Tail(ls))

RequestOutcomes == {"ok", "RequestException", "KeyError"}

\* run_backup, lines 196-205: success = True, projects = self.get_projects(),
\* the empty check.  A KeyError on a malformed response is not a
\* RequestException and reaches run_backup's except clause.
run_backup_get_projects ==
    /\ pc = "run_backup"
    /\ \E n \in 0..MaxProjects, outcome \in RequestOutcomes :
        IF outcome = "KeyError"
          THEN /\ EnterHandler("KeyError")
               /\ projects' = projects
               /\ pi' = pi
               /\ discovered' = discovered
          ELSE LET value == IF outcome = "ok" THEN SubSeq(AllProjects, 1, n) ELSE <<>>
                   ps == get_projects(value, outcome)
               IN
               /\ discovered' = value
               /\ projects' = ps
               /\ IF ps = <<>>
                    THEN ReturnNoProjects /\ pi' = pi
                    ELSE /\ pc' = "project"
                         /\ pi' = 1
                         /\ UNCHANGED outcomeVars
    /\ UNCHANGED <<config, manifest, repos, ri, raised, fsVars, cloudVars, calls,
                   listings, outcomes, notifications, exitCode>>

\* run_backup, lines 207-215: one iteration header of "for project in
\* projects": create the project directory, list the repositories,
\* continue with the next project when there are none.
run_backup_project ==
    /\ pc = "project"
    /\ pi <= Len(projects)
    /\ projectDirs' = projectDirs \cup {project_dir(projects[pi])}
    /\ \E k \in 0..(MaxRepos - ListedRepos(listings)), outcome \in RequestOutcomes :
        IF outcome = "KeyError"
          THEN /\ EnterHandler("KeyError")
               /\ UNCHANGED <<pi, repos, ri, listings>>
          ELSE LET rs == get_repos_by_project(SubSeq(AllRepos, 1, k), outcome) IN
               /\ repos' = rs
               /\ listings' = Append(listings,
                     [project |-> projects[pi], repos |-> rs, outcome |-> outcome])
               /\ IF rs = <<>>
                    THEN pi' = pi + 1 /\ ri' = ri /\ pc' = "project"
                    ELSE pi' = pi /\ ri' = 1 /\ pc' = "backup_repo"
               /\ UNCHANGED outcomeVars
    /\ UNCHANGED <<config, manifest, projects, raised, rootExists, workspaces,
                   archives, manifestFile, cloudVars, calls, discovered, outcomes,
                   notifications, exitCode>>

\* the for loop over projects is exhausted: self.write_manifest() is next
run_backup_loop_end ==
    /\ pc = "project"
    /\ pi > Len(projects)
    /\ pc' = "write_manifest"
    /\ UNCHANGED <<config, manifest, loopVars, outcomeVars, raised, fsVars,
                   cloudVars, calls, histVars, notifications, exitCode>>

\* backup_repo returned normally: next repo of the project, or next project
NextRepo ==
    IF ri < Len(repos)
      THEN ri' = ri + 1 /\ pi' = pi /\ pc' = "backup_repo"
      ELSE ri' = ri /\ pi' = pi + 1 /\ pc' = "project"

\* ---------------------------------------------------------- backup_repo
\* variant: the except clause names a class subprocess.run never raises here
backup_repo_catches_TimeoutOnly(exc) == exc = "TimeoutExpired"

\* "except subprocess.CalledProcessError": the only exception class
\* backup_repo's try statement catches.
backup_repo_catches(exc) == exc = "CalledProcessError"

\* variant: the dry-run return is missing from backup_repo
SkipCloneAndZip_Never == FALSE

\* "if self.dry_run: return", after the manifest append
SkipCloneAndZip == dry_run

ProcessOutcomes == {"ok", "CalledProcessError", "OSError"}

\* the record of the backup_repo call in progress
SetLast(seq, v) == [seq EXCEPT ![Len(seq)] = v]

\* backup_repo, lines 158-182: build the paths, append the manifest entry,
\* return at once in a dry run.
backup_repo ==
    /\ pc = "backup_repo"
    /\ manifest' = Append(manifest, ManifestEntry(projects[pi], repos[ri]))
    /\ IF SkipCloneAndZip
         THEN NextRepo /\ outcomes' = Append(outcomes, "dry_run")
         ELSE /\ pc' = "clone" /\ pi' = pi /\ ri' = ri
              /\ outcomes' = Append(outcomes, "started")
    /\ UNCHANGED <<config, projects, repos, outcomeVars, raised, fsVars, cloudVars,
                   calls, discovered, listings, notifications, exitCode>>

\* line 185: git clone --mirror, check=True.  A non-zero exit status is
\* CalledProcessError; a missing executable is OSError.  A failed clone may
\* or may not leave the target directory behind.
backup_repo_clone ==
    /\ pc = "clone"
    /\ calls' = [calls EXCEPT !.clone = @ + 1]
    /\ \E outcome \in ProcessOutcomes, leftover \in BOOLEAN :
        LET ws == temp_clone_path(projects[pi], repos[ri]) IN
        IF outcome = "ok"
          THEN /\ workspaces' = workspaces \cup {ws}
               /\ UNCHANGED <<raised, outcomes>>
               /\ pc' = "zip"
          ELSE /\ workspaces' = IF leftover /\ outcome = "CalledProcessError"
                                  THEN workspaces \cup {ws} ELSE workspaces
               /\ raised' = IF backup_repo_catches(outcome) THEN "" ELSE outcome
               /\ outcomes' = SetLast(outcomes, "clone:" \o outcome)
               /\ pc' = "finally"
    /\ UNCHANGED <<config, manifest, loopVars, outcomeVars, rootExists, projectDirs,
                   archives, manifestFile, cloudVars, discovered, listings,
                   notifications, exitCode>>

\* variant: zip is run without check=True, so a non-zero exit status is
\* not noticed and the upload step follows
backup_repo_zip_Unchecked ==
    /\ pc = "zip"
    /\ calls' = [calls EXCEPT !.zip = @ + 1]
    /\ \E outcome \in ProcessOutcomes :
        IF outcome = "ok"
          THEN /\ archives' = archives \cup {zip_file_path(projects[pi], repos[ri])}
               /\ raised' = raised
               /\ outcomes' = SetLast(outcomes, "archived")
               /\ pc' = "upload"
          ELSE /\ archives' = archives
               /\ raised' = IF backup_repo_catches(outcome) THEN "" ELSE outcome
               /\ outcomes' = SetLast(outcomes, "zip:" \o outcome)
               /\ pc' = IF outcome = "CalledProcessError" THEN "upload" ELSE "finally"
    /\ UNCHANGED <<config, manifest, loopVars, outcomeVars, rootExists, projectDirs,
                   workspaces, manifestFile, cloudVars, discovered, listings,
                   notifications, exitCode>>

\* line 186: zip -r, check=True
backup_repo_zip ==
    /\ pc = "zip"
    /\ calls' = [calls EXCEPT !.zip = @ + 1]
    /\ \E outcome \in ProcessOutcomes :
        IF outcome = "ok"
          THEN /\ archives' = archives \cup {zip_file_path(projects[pi], repos[ri])}
               /\ raised' = raised
               /\ outcomes' = SetLast(outcomes, "archived")
               /\ pc' = "upload"
          ELSE /\ archives' = archives
               /\ raised' = IF backup_repo_catches(outcome) THEN "" ELSE outcome
               /\ outcomes' = SetLast(outcomes, "zip:" \o outcome)
               /\ pc' = "finally"
    /\ UNCHANGED <<config, manifest, loopVars, outcomeVars, rootExists, projectDirs,
                   workspaces, manifestFile, cloudVars, discovered, listings,
                   notifications, exitCode>>

\* variant: both uploads share one try block, so an Azure failure skips AWS
upload_backup_SharedTry ==
    /\ pc = "upload"
    /\ \E azureOK \in BOOLEAN, awsOK \in BOOLEAN :
        LET zp == zip_file_path(projects[pi], repos[ri])
            call(ok) == [path |-> zp, cloud |-> cloud_path(zp), ok |-> ok]
        IN
        IF dry_run \/ (~azure_backup /\ ~aws_backup)
          THEN UNCHANGED cloudVars
          ELSE /\ azureCalls' = IF azure_backup
                                  THEN Append(azureCalls, call(azureOK))
                                  ELSE azureCalls
               /\ awsCalls' = IF aws_backup /\ (azure_backup => azureOK)
                                THEN Append(awsCalls, call(awsOK))
                                ELSE awsCalls
    /\ pc' = "finally"
    /\ UNCHANGED <<config, manifest, loopVars, outcomeVars, raised, fsVars, calls,
                   histVars, notifications, exitCode>>

\* upload_backup: one upload_blob call if self.azure_backup, then one
\* upload_file call if self.aws_backup; each in its own try/except Exception.
upload_backup ==
    /\ pc = "upload"
    /\ \E azureOK \in BOOLEAN, awsOK \in BOOLEAN :
        LET zp == zip_file_path(projects[pi], repos[ri])
            call(ok) == [path |-> zp, cloud |-> cloud_path(zp), ok |-> ok]
        IN
        IF dry_run \/ (~azure_backup /\ ~aws_backup)
          THEN UNCHANGED cloudVars
          ELSE /\ azureCalls' = IF azure_backup
                                  THEN Append(azureCalls, call(azureOK))
                                  ELSE azureCalls
               /\ awsCalls' = IF aws_backup
                                THEN Append(awsCalls, call(awsOK))
                                ELSE awsCalls
    /\ pc' = "finally"
    /\ UNCHANGED <<config, manifest, loopVars, outcomeVars, raised, fsVars, calls,
                   histVars, notifications, exitCode>>

\* variant: the rm -rf sits at the end of the try body instead of in a
\* finally clause, so it only runs after a successful upload step
backup_repo_finally_CleanupInTry ==
    /\ pc = "finally"
    /\ LET ws == temp_clone_path(projects[pi], repos[ri]) IN
        IF ws \in workspaces /\ outcomes[Len(outcomes)] = "archived"
          THEN /\ workspaces' = workspaces \ {ws}
               /\ calls' = [calls EXCEPT !.rm_workspace = @ + 1]
          ELSE UNCHANGED <<workspaces, calls>>
    /\ raised' = ""
    /\ IF raised # ""
         THEN EnterHandler(raised) /\ pi' = pi /\ ri' = ri
         ELSE NextRepo /\ UNCHANGED outcomeVars
    /\ UNCHANGED <<config, manifest, projects, repos, rootExists, projectDirs,
                   archives, manifestFile, cloudVars, histVars, notifications,
                   exitCode>>

\* backup_repo's finally clause: rm -rf the clone directory if it exists;
\* then either the pending exception reaches run_backup's except clause or
\* backup_repo returns to the loop.
backup_repo_finally ==
    /\ pc = "finally"
    /\ LET ws == temp_clone_path(projects[pi], repos[ri]) IN
        IF ws \in workspaces
          THEN /\ workspaces' = workspaces \ {ws}
               /\ calls' = [calls EXCEPT !.rm_workspace = @ + 1]
          ELSE UNCHANGED <<workspaces, calls>>
    /\ raised' = ""
    /\ IF raised # ""
         THEN EnterHandler(raised) /\ pi' = pi /\ ri' = ri
         ELSE NextRepo /\ UNCHANGED outcomeVars
    /\ UNCHANGED <<config, manifest, projects, repos, rootExists, projectDirs,
                   archives, manifestFile, cloudVars, histVars, notifications,
                   exitCode>>

\* ------------------------------------------------------- write_manifest
WriteOutcomes == {"ok", "open_fails", "dump_fails"}

\* write_manifest: open(manifest_file, "w") creates or truncates the file,
\* json.dump writes it.  An OSError from open leaves no file, one from the
\* dump leaves an incomplete file; both reach run_backup's except clause.
write_manifest ==
    /\ pc = "write_manifest"
    /\ \E outcome \in WriteOutcomes :
        /\ manifestFile' =
             IF outcome = "open_fails"
               THEN manifestFile
               ELSE [exists |-> TRUE, complete |-> outcome = "ok",
                     organization |-> organization, timestamp |-> timestamp,
                     repos |-> IF outcome = "ok" THEN manifest ELSE <<>>]
        /\ IF outcome = "ok"
             THEN pc' = "notify" /\ UNCHANGED outcomeVars
             ELSE EnterHandler("OSError")
    /\ UNCHANGED <<config, manifest, loopVars, raised, rootExists, projectDirs,
                   workspaces, archives, cloudVars, calls, histVars,
                   notifications, exitCode>>

\* ----------------------------------------------- send_email_notification
\* variant: the os.path.exists test is missing
AttachManifest_Unconditional == TRUE

\* "if os.path.exists(manifest_file)": read the file and attach it.  Reading
\* back a file this process wrote is taken to succeed.
AttachManifest == manifestFile.exists

\* variant: the SMTP block has no try/except; a delivery failure leaves
\* run_backup's finally clause before the cleanup decision
send_email_notification_Unguarded ==
    /\ pc = "notify"
    /\ \E delivered \in BOOLEAN :
        /\ notifications' = Append(notifications,
              [success |-> success, error_message |-> error_message,
               total |-> Len(manifest), attached |-> AttachManifest,
               attachment |-> manifestFile, delivered |-> delivered])
        /\ pc' = IF success /\ delivered THEN "delete_local" ELSE "done"
    /\ UNCHANGED <<config, manifest, loopVars, outcomeVars, raised, fsVars,
                   cloudVars, calls, histVars, exitCode>>

\* Called from run_backup's finally clause.  The manifest file is attached
\* if os.path.exists says so; an SMTP failure is logged and swallowed.
send_email_notification ==
    /\ pc = "notify"
    /\ \E delivered \in BOOLEAN :
        notifications' = Append(notifications,
            [success |-> success, error_message |-> error_message,
             total |-> Len(manifest), attached |-> AttachManifest,
             attachment |-> manifestFile, delivered |-> delivered])
    /\ pc' = IF success THEN "delete_local" ELSE "done"
    /\ UNCHANGED <<config, manifest, loopVars, outcomeVars, raised, fsVars,
                   cloudVars, calls, histVars, exitCode>>

\* ------------------------------------------- delete_local_backup_folder
\* variant: the keep_local return is missing
SkipDelete_IgnoresKeepLocal == dry_run

\* the two early returns of delete_local_backup_folder
SkipDelete == dry_run \/ keep_local

\* run_backup's "if success: self.delete_local_backup_folder()":
\* rm -rf backup_root, check=True; a failure is logged and swallowed.
delete_local_backup_folder ==
    /\ pc = "delete_local"
    /\ IF SkipDelete
         THEN UNCHANGED <<fsVars, calls>>
         ELSE /\ calls' = [calls EXCEPT !.rm_root = @ + 1]
              /\ \E removed \in BOOLEAN :
                  IF removed
                    THEN /\ rootExists' = FALSE
                         /\ projectDirs' = {}
                         /\ workspaces' = {}
                         /\ archives' = {}
                         /\ manifestFile' = NoFile
                    ELSE UNCHANGED fsVars
    /\ pc' = "done"
    /\ UNCHANGED <<config, manifest, loopVars, outcomeVars, raised, cloudVars,
                   histVars, notifications, exitCode>>

\* run_backup has returned; main returns and the process exits with 0
main_return ==
    /\ pc = "done"
    /\ pc' = "exit"
    /\ exitCode' = 0
    /\ UNCHANGED <<config, manifest, loopVars, outcomeVars, raised, fsVars,
                   cloudVars, calls, histVars, notifications>>

Next ==
    \/ main
    \/ AzureDevOpsBackup_init
    \/ run_backup_get_projects
    \/ run_backup_project
    \/ run_backup_loop_end
    \/ backup_repo
    \/ backup_repo_clone
    \/ backup_repo_zip
    \/ upload_backup
    \/ backup_repo_finally
    \/ write_manifest
    \/ send_email_notification
    \/ delete_local_backup_folder
    \/ main_return

Spec == Init /\ [][Next]_vars

\* The process is sequential and every external call returns or raises:
\* whenever a step is possible, a step is eventually taken.
FairSpec == Spec /\ WF_vars(Next)

TypeOK ==
    /\ pc \in {"main", "init", "run_backup", "project", "backup_repo", "clone",
               "zip", "upload", "finally", "write_manifest", "notify",
               "delete_local", "done", "exit"}
    /\ success \in BOOLEAN
    /\ Len(manifest) <= MaxRepos

\* =============================================================== properties
\* __init__ has returned
Constructed == pat_token /\ pc \notin {"main", "init"}

\* run_backup has returned
RunReturned == pat_token /\ pc \in {"done", "exit"}

\* the for loop over projects ran to its end
LoopCompleted == projects # <<>> /\ pi > Len(projects)

RECURSIVE DiscoveryPairs(_)
\* the (project, repository) pairs of the listings, in listing order
DiscoveryPairs(ls) ==
    IF ls = <<>>
      THEN <<>>
      ELSE [i \in 1..Len(Head(ls).repos) |-> <<Head(ls).project, Head(ls).repos[i]>>]
             \o DiscoveryPairs(Tail(ls))

ManifestPairs == [i \in 1..Len(manifest) |-> <<manifest[i].project, manifest[i].repo>>]

IsPrefix(a, b) == Len(a) <= Len(b) /\ a = SubSeq(b, 1, Len(a))

\* every listed project is a project of the run, in order, and every
\* repository of every project was handed to backup_repo
AllProcessed ==
    /\ Len(listings) = Len(projects)
    /\ \A j \in DOMAIN listings : listings[j].project = projects[j]
    /\ ManifestPairs = DiscoveryPairs(listings)
    /\ Len(outcomes) = Len(manifest)

\* git or zip ended with a non-zero status for the i-th backup_repo call
Failed(i) == outcomes[i] \in {"clone:CalledProcessError", "zip:CalledProcessError"}

\* the i-th backup_repo call has left its try statement's body
BodyDone(i) == i < Len(outcomes) \/ pc \notin {"clone", "zip", "upload"}

EscapedErrors == {"OSError", "KeyError"}

C2_NotifiedExactlyOnce ==
    /\ Len(notifications) <= 1
    /\ RunReturned => Len(notifications) = 1
    /\ pc \in {"main", "init", "run_backup", "project", "backup_repo", "clone",
               "zip", "upload", "finally", "write_manifest", "notify"}
          => notifications = <<>>

\* a run in which an error escaped while a repository was processed has
\* returned with one notification
C2_Witness ==
    /\ pc = "done"
    /\ handled
    /\ Len(manifest) >= 1
    /\ outcomes[Len(outcomes)] \in {"clone:OSError", "zip:OSError"}
    /\ Len(notifications) = 1

C4_SuccessIff ==
    Len(notifications) >= 1 =>
        /\ notifications[1].success <=> (projects # <<>> /\ ~handled)
        /\ (\A i \in DOMAIN discovered : discovered[i] \in excluded_projects)
              => ~notifications[1].success /\ manifest = <<>>

\* all MaxProjects projects of the response were excluded and the notifier
\* was told the run failed
C4_Witness ==
    /\ Len(notifications) = 1
    /\ Len(discovered) = MaxProjects
    /\ \A i \in DOMAIN discovered : discovered[i] \in excluded_projects
    /\ ~notifications[1].success
    /\ ~handled

\* ---------------------------------------------------------------------- C5
\* paths of the archives the run produced
ArchivedPaths ==
    {manifest[i].path : i \in {j \in DOMAIN outcomes : outcomes[j] = "archived"}}

\* C5: rm -rf of the backup root is run (once) exactly in the runs that end
\* with success set, dry_run unset and keep_local unset; after any other
\* run the backup root, the archives and the manifest file are as the run
\* left them before the notification.
C5_DeleteIff ==
    /\ calls.rm_root =
          IF RunReturned /\ success /\ ~dry_run /\ ~keep_local THEN 1 ELSE 0
    /\ (RunReturned /\ (~success \/ dry_run \/ keep_local))
          => /\ rootExists
             /\ archives = ArchivedPaths
             /\ manifestFile = notifications[1].attachment

\* a successful real run with keep_local ended with its archives and its
\* manifest file on disk
C5_Witness ==
    /\ pc = "done"
    /\ success /\ ~dry_run /\ keep_local
    /\ Cardinality(archives) = MaxRepos
    /\ manifestFile.complete
    /\ rootExists

\* ---------------------------------------------------------------------- C6
\* C6 as stated: on every failed run the manifest file, holding the entries
\* collected so far, is on disk when the notifier is invoked.
C6_ManifestWrittenOnFailedRun ==
    \A k \in DOMAIN notifications :
        ~notifications[k].success
            => /\ notifications[k].attached
               /\ notifications[k].attachment.complete
               /\ notifications[k].attachment.repos = manifest

\* ---------------------------------------------------------------------- C7
\* C7: in a dry run git clone, zip, rm of a clone directory and rm of the
\* backup root are never invoked, neither destination is ever called, and
\* the backup root stays in place.
C7_DryRunNoIrreversibleAction ==
    dry_run =>
        /\ calls = [clone |-> 0, zip |-> 0, rm_workspace |-> 0, rm_root |-> 0]
        /\ azureCalls = <<>>
        /\ awsCalls = <<>>
        /\ workspaces = {}
        /\ archives = {}
        /\ Constructed => rootExists

\* a successful dry run with both destinations enabled went through
\* MaxRepos repositories and returned
C7_Witness ==
    /\ pc = "done"
    /\ dry_run /\ azure_backup /\ aws_backup /\ ~keep_local
    /\ success
    /\ Len(manifest) = MaxRepos

\* ---------------------------------------------------------------------- C8
\* the entry C8 expects for a (project, repository) pair, written out
ExpectedEntry(pair) ==
    LET name == pair[1] \o "-" \o pair[2] \o "-" \o TimestampValue \o ".zip" IN
    [project |-> pair[1], repo |-> pair[2], zip_file |-> name,
     path |-> <<"backups", TimestampValue, pair[1] \o "-" \o TimestampValue, name>>]

\* the manifest is the same function of the catalog and the timestamp in a
\* dry run and in a real run
SameManifest ==
    manifest = [i \in 1..Len(manifest) |-> ExpectedEntry(DiscoveryPairs(listings)[i])]

\* C8 as stated: in a run in which no error reaches run_backup's except
\* clause the manifest is the same function of catalog and timestamp whether
\* or not dry_run is set, and a dry run writes the manifest file and
\* attaches it to the notification.
C8_DryRunSameManifestAttached ==
    /\ IsPrefix(ManifestPairs, DiscoveryPairs(listings)) /\ SameManifest
    /\ (RunReturned /\ ~handled /\ projects # <<>>) => AllProcessed
    /\ (dry_run /\ ~handled /\ Len(notifications) >= 1)
          => /\ notifications[1].attached
             /\ notifications[1].attachment.complete
             /\ notifications[1].attachment.repos = manifest

\* the part of C8 about the manifest itself, and about the dry runs in
\* which get_projects returned at least one project
C8_SameManifestWhenProjects ==
    /\ IsPrefix(ManifestPairs, DiscoveryPairs(listings)) /\ SameManifest
    /\ (RunReturned /\ ~handled /\ projects # <<>>) => AllProcessed
    /\ (dry_run /\ ~handled /\ projects # <<>> /\ Len(notifications) >= 1)
          => /\ notifications[1].attached
             /\ notifications[1].attachment.complete
             /\ notifications[1].attachment.repos = manifest

\* ---------------------------------------------------------------------- C9
\* number of calls in the log for one archive
CallsFor(log, path) == Cardinality({k \in DOMAIN log : log[k].path = path})

\* upload_backup has been left for the i-th backup_repo call's archive
Dispatched(i) == outcomes[i] = "archived" /\ (i < Len(outcomes) \/ pc # "upload")

AnyUploadFailed ==
    \/ \E k \in DOMAIN azureCalls : ~azureCalls[k].ok
    \/ \E k \in DOMAIN awsCalls : ~awsCalls[k].ok

\* C9: with both destinations enabled in a real run, each archive gets
\* exactly one upload_blob call and exactly one upload_file call, whatever
\* the result of the other call, nothing else is ever uploaded, and a failed
\* upload neither clears the success flag nor keeps later repositories from
\* being processed.
C9_IndependentUploads ==
    (~dry_run /\ azure_backup /\ aws_backup) =>
        /\ \A i \in DOMAIN outcomes :
              /\ CallsFor(azureCalls, manifest[i].path) = IF Dispatched(i) THEN 1 ELSE 0
              /\ CallsFor(awsCalls, manifest[i].path) = IF Dispatched(i) THEN 1 ELSE 0
        /\ \A k \in DOMAIN azureCalls : \E i \in DOMAIN manifest :
              azureCalls[k].path = manifest[i].path
        /\ \A k \in DOMAIN awsCalls : \E i \in DOMAIN manifest :
              awsCalls[k].path = manifest[i].path
        /\ AnyUploadFailed /\ ~success => handled /\ error_message \in EscapedErrors
        /\ (RunReturned /\ AnyUploadFailed /\ ~handled) => success /\ AllProcessed

\* the Azure upload of the first archive and the AWS upload of the second
\* failed, the other two uploads went through, and the run ended with
\* success set
C9_Witness ==
    /\ pc = "done"
    /\ success
    /\ Len(azureCalls) = 2 /\ Len(awsCalls) = 2
    /\ ~azureCalls[1].ok /\ awsCalls[1].ok
    /\ azureCalls[2].ok /\ ~awsCalls[2].ok

\* --------------------------------------------------------------------- C10
\* C10: a destination whose flag is set but whose environment is missing is
\* switched off by __init__ and never called; the run starts all the same,
\* the other destination keeps its setting and is called once for every
\* archive produced.
C10_MisconfiguredDestinationOnly ==
    Constructed =>
        /\ (args.azure_backup /\ ~azureEnv) =>
              /\ ~azure_backup
              /\ azureCalls = <<>>
              /\ aws_backup = (args.aws_backup /\ awsEnv)
              /\ (aws_backup /\ ~dry_run) => \A i \in DOMAIN outcomes :
                    CallsFor(awsCalls, manifest[i].path) = IF Dispatched(i) THEN 1 ELSE 0
        /\ (args.aws_backup /\ ~awsEnv) =>
              /\ ~aws_backup
              /\ awsCalls = <<>>
              /\ azure_backup = (args.azure_backup /\ azureEnv)
              /\ (azure_backup /\ ~dry_run) => \A i \in DOMAIN outcomes :
                    CallsFor(azureCalls, manifest[i].path) = IF Dispatched(i) THEN 1 ELSE 0
        /\ pc = "run_backup" => rootExists /\ success /\ ~handled

\* Azure was requested without its environment; the run went on and AWS
\* received every one of the MaxRepos archives
C10_Witness ==
    /\ pc = "done"
    /\ args.azure_backup /\ ~azureEnv
    /\ aws_backup
    /\ success
    /\ Cardinality(ArchivedPaths) = MaxRepos
    /\ Len(awsCalls) = MaxRepos
    /\ \A k \in DOMAIN awsCalls : awsCalls[k].ok

\* --------------------------------------------------------------------- C11
\* C11 as stated: without AZURE_DEVOPS_PAT the process ends before any run
\* phase (no backup root, no enumeration, no notification) with a non-zero
\* exit code; every run that starts ends with exit code 0.
C11_MissingCredentialExitsNonZero ==
    pc = "exit" =>
        IF pat_token
          THEN exitCode = 0
          ELSE /\ ~rootExists
               /\ discovered = <<>> /\ projects = <<>> /\ listings = <<>>
               /\ notifications = <<>>
               /\ exitCode # 0

\* the part of C11 the code has: nothing of a run happens without the
\* credential, and a run that started ends with exit code 0
C11_NoRunWithoutCredential ==
    /\ ~pat_token => /\ pc \in {"main", "exit"}
                     /\ ~rootExists
                     /\ discovered = <<>> /\ projects = <<>> /\ listings = <<>>
                     /\ manifest = <<>> /\ notifications = <<>>
    /\ (pat_token /\ pc = "exit") => exitCode = 0

C13_DeliveryFailureSwallowed ==
    \A k \in DOMAIN notifications :
        ~notifications[k].delivered =>
            /\ Len(notifications) = 1
            /\ success = notifications[k].success
            /\ error_message = notifications[k].error_message
            /\ pc \in {"delete_local", "done", "exit"}
            /\ pc = "delete_local" => success
            /\ pc \in {"done", "exit"} =>
                  calls.rm_root = IF success /\ ~dry_run /\ ~keep_local THEN 1 ELSE 0

\* the mail of a successful real run was not delivered and the backup root
\* was removed all the same
C13_Witness ==
    /\ pc = "done"
    /\ Len(notifications) = 1
    /\ ~notifications[1].delivered
    /\ notifications[1].success
    /\ calls.rm_root = 1
    /\ ~rootExists

\* --------------------------------------------------------------------- C14
\* C14: once run_backup has been entered it eventually returns (the state
\* DONE), whatever the outcomes of enumeration, clones, compressions,
\* uploads, the manifest write and the mail delivery.
C14_RunReachesDone == (pc = "run_backup") ~> (pc = "done")

\* a run with a failed repository, a failed upload, a failed manifest
\* write and an undelivered notification has returned
C14_Witness ==
    /\ pc = "done"
    /\ \E i \in DOMAIN outcomes : Failed(i)
    /\ AnyUploadFailed
    /\ LoopCompleted /\ handled /\ manifestFile.exists /\ ~manifestFile.complete
    /\ Len(notifications) = 1 /\ ~notifications[1].delivered

\* --------------------------------------------------------------------- C15
\* C15: rm -rf of the backup root is never run before the notifier has been
\* called, and in a run in which it is run the complete manifest file was
\* on disk, and was attached, when the notifier was called.
C15_DeleteAfterManifestAndNotify ==
    /\ pc \in {"main", "init", "run_backup", "project", "backup_repo", "clone",
               "zip", "upload", "finally", "write_manifest", "notify",
               "delete_local"}
          => calls.rm_root = 0 /\ (Constructed => rootExists)
    /\ pc = "delete_local"
          => Len(notifications) = 1 /\ manifestFile.exists /\ manifestFile.complete
    /\ calls.rm_root >= 1
          => /\ Len(notifications) = 1
             /\ notifications[1].attached
             /\ notifications[1].attachment.complete
             /\ notifications[1].attachment.repos = manifest

\* the backup root of a run over MaxRepos repositories is gone and the
\* notification of that run carries the complete manifest
C15_Witness ==
    /\ pc = "done"
    /\ calls.rm_root = 1
    /\ ~rootExists /\ ~manifestFile.exists
    /\ Len(manifest) = MaxRepos
    /\ notifications[1].attached
    /\ Len(notifications[1].attachment.repos) = MaxRepos

\* --------------------------------------------------------------------- C16
\* the clone directory of the backup_repo call in progress
CurrentWorkspace == temp_clone_path(projects[pi], repos[ri])

\* C16: in a real run a clone directory exists only while backup_repo is
\* between its clone and its finally clause, and it is the one of the
\* repository in progress; every archive backup_repo produced stays on disk
\* as long as the backup root does.  (rm -rf of the clone directory is taken
\* to succeed.)
C16_WorkspaceRemovedArchiveKept ==
    ~dry_run =>
        /\ pc \notin {"clone", "zip", "upload", "finally"} => workspaces = {}
        /\ pc \in {"clone", "zip", "upload", "finally"}
              => workspaces \subseteq {CurrentWorkspace}
        /\ (rootExists /\ calls.rm_root = 0) => archives = ArchivedPaths
        /\ calls.rm_workspace <= calls.clone

\* the first repository was archived, the second one's zip raised an error
\* that escaped backup_repo; both clone directories are gone and the
\* archive is still there
C16_Witness ==
    /\ pc = "notify"
    /\ ~dry_run
    /\ handled
    /\ outcomes = <<"archived", "zip:OSError">>
    /\ workspaces = {}
    /\ calls.rm_workspace = 2
    /\ archives = {manifest[1].path}

\* --------------------------------------------------------------------- C17
\* C17 as stated: the manifest file either does not exist or holds the
\* complete manifest, and no notification ever carries an incomplete one.
C17_ManifestWriteAllOrNothing ==
    /\ manifestFile.exists => manifestFile.complete /\ manifestFile.repos = manifest
    /\ \A k \in DOMAIN notifications :
          notifications[k].attached => notifications[k].attachment.complete

\* --------------------------------------------------------------------- C18
\* C18: when the request for a project's repositories fails,
\* get_repos_by_project returns an empty list: the exception never reaches
\* run_backup, the project gets no manifest entry, the projects after it
\* are still listed and processed, and a run in which nothing else goes
\* wrong ends with success set.
C18_ListingFailureIsEmptyList ==
    /\ error_message # "RequestException"
    /\ \A j \in DOMAIN listings :
          listings[j].outcome = "RequestException" =>
              /\ listings[j].repos = <<>>
              /\ \A i \in DOMAIN manifest : manifest[i].project # listings[j].project
              /\ ~success => (handled /\ error_message \in EscapedErrors)
              /\ (RunReturned /\ ~handled) => success /\ AllProcessed

\* the listing of the first project failed, the second project was listed
\* and backed up, and the run ended with success set
C18_Witness ==
    /\ pc = "done"
    /\ success
    /\ Len(listings) = 2
    /\ listings[1].outcome = "RequestException"
    /\ listings[2].outcome = "ok"
    /\ Len(manifest) = MaxRepos
    /\ \A i \in DOMAIN outcomes : outcomes[i] = "archived"

\* --------------------------------------------------------------------- C19
\* position in the manifest of the entry with the given archive path
EntryIndex(path) == CHOOSE i \in DOMAIN manifest : manifest[i].path = path

\* the calls of a destination are for archived repositories only, and in
\* manifest order
CallsFollowArchives(log) ==
    /\ \A k \in DOMAIN log : \E i \in DOMAIN manifest :
          manifest[i].path = log[k].path /\ outcomes[i] = "archived"
    /\ \A k, l \in DOMAIN log : k < l => EntryIndex(log[k].path) < EntryIndex(log[l].path)

\* C19: repositories are processed one at a time in the order append,
\* clone, zip, upload, cleanup: the clone of a repository starts with its
\* manifest entry appended and no clone directory of an earlier repository
\* left, zip runs only on a finished clone, upload_backup only on a finished
\* zip, and no destination is ever called for a repository whose clone or
\* zip failed.
C19_SequentialPipeline ==
    /\ Len(outcomes) = Len(manifest)
    /\ calls.zip <= calls.clone /\ calls.clone <= Len(manifest)
    /\ ~dry_run => calls.clone = Len(manifest) - (IF pc = "clone" THEN 1 ELSE 0)
    /\ pc \in {"clone", "zip", "upload", "finally"} =>
          manifest[Len(manifest)] = ManifestEntry(projects[pi], repos[ri])
    /\ pc = "clone" => outcomes[Len(outcomes)] = "started" /\ workspaces = {}
    /\ pc = "zip" => /\ outcomes[Len(outcomes)] = "started"
                     /\ workspaces = {CurrentWorkspace}
                     /\ zip_file_path(projects[pi], repos[ri]) \notin archives
    /\ pc = "upload" => /\ outcomes[Len(outcomes)] = "archived"
                        /\ workspaces = {CurrentWorkspace}
                        /\ zip_file_path(projects[pi], repos[ri]) \in archives
    /\ CallsFollowArchives(azureCalls)
    /\ CallsFollowArchives(awsCalls)

\* the first repository failed, the second was archived, and each enabled
\* destination was called for the second one only
C19_Witness ==
    /\ pc = "done"
    /\ azure_backup /\ aws_backup
    /\ Len(outcomes) = 2
    /\ Failed(1)
    /\ outcomes[2] = "archived"
    /\ Len(azureCalls) = 1 /\ azureCalls[1].path = manifest[2].path
    /\ Len(awsCalls) = 1 /\ awsCalls[1].path = manifest[2].path

\* --------------------------------------------------------------------- C20
\* some destination accepted the archive
UploadedOK(path) ==
    \/ \E k \in DOMAIN azureCalls : azureCalls[k].path = path /\ azureCalls[k].ok
    \/ \E k \in DOMAIN awsCalls : awsCalls[k].path = path /\ awsCalls[k].ok

\* C20 as stated: rm -rf of the backup root is run only if every archive of
\* the run was accepted by a destination, and no run ends with an archive
\* that is neither on disk nor at a destination.
C20_NoArchiveLost ==
    /\ calls.rm_root >= 1 => \A p \in ArchivedPaths : UploadedOK(p)
    /\ RunReturned => \A p \in ArchivedPaths : p \in archives \/ UploadedOK(p)

====
